---- MODULE Spec2Model ----
(***************************************************************************)
(* Model of the DIMACS IRP solution verifier (verify.py): the Instance     *)
(* data, the reading of a Solution's routes, and Solution.verify_solution  *)
(* with its day-by-day inventory simulation and its cost reconciliation.   *)
(*                                                                         *)
(* Python lists are sequences; a Python index i is position i + 1, and a   *)
(* negative index counts from the end (At, SetAt).  Python floats are IEEE *)
(* doubles; a double is modelled exactly as a record [n, r] that stands    *)
(* for the number n/200 + r/(25 * 2^60): n counts half cents and r is the  *)
(* binary representation error (Double section below).                     *)
(***************************************************************************)
EXTENDS Integers, Sequences, FiniteSets, TLC

(* ------------------------------ bounds --------------------------------- *)

\* most stops (customer, quantity) in all routes of one solution
MaxStops == 2

\* largest delivered quantity read from a route
MaxQty == 1

\* largest start level of the customer whose start level varies
MaxStart == 3

\* how far (in units, resp. half cents) a reported figure lies from the
\* figure it is compared with
MaxOffset == 1

(* --------------------------- Python helpers ---------------------------- *)

\* Python's None, for the optional day / route / node of an error
None == -1

\* the position that index i of a Python list of length len denotes
Index(len, i) == (IF i < 0 THEN i + len ELSE i) + 1

\* list[i] with Python's index rule
At(list, i) == list[Index(Len(list), i)]

\* list[i] = v
SetAt(list, i, v) == [list EXCEPT ![Index(Len(list), i)] = v]

\* range(n) as a set of Python indices
Range(n) == 0 .. (n - 1)

(* ------------------------------ Double --------------------------------- *)

\* 2^e
RECURSIVE Pow2(_)
Pow2(e) == IF e = 0 THEN 1 ELSE 2 * Pow2(e - 1)

\* 2^e mod m
RECURSIVE Pow2Mod(_, _)
Pow2Mod(e, m) ==
    IF e < 8 THEN Pow2(e) % m ELSE (256 * Pow2Mod(e - 8, m)) % m

\* j such that the number n/200 + r/(25*2^60) lies in [2^(j-8), 2^(j-7)):
\* the doubles of that binade are the multiples of 2^j * 2^-60
RECURSIVE BinadeFrom(_, _)
BinadeFrom(n, j) == IF 25 * Pow2(j + 1) <= 32 * n THEN BinadeFrom(n, j + 1) ELSE j

Binade(n, r) ==
    LET j == BinadeFrom(n, 0)
    IN  IF 25 * Pow2(j) = 32 * n /\ r < 0 THEN j - 1 ELSE j

\* the double nearest to n/200 + r/(25*2^60), ties to the even mantissa
\* (IEEE 754 round-to-nearest-even, the rounding of every float operation)
RoundToDouble(n, r) ==
    IF n = 0 /\ r = 0 THEN [n |-> 0, r |-> 0]
    ELSE LET G == Pow2(Binade(n, r))
             M == 50 * G
             Z == (((n * Pow2Mod(57, M)) % M) + (r % M)) % M
             Y == Z % (25 * G)
             q == Z \div (25 * G)
         IN  IF 2 * Y < 25 * G \/ (2 * Y = 25 * G /\ q = 0)
             THEN [n |-> n, r |-> r - Y]
             ELSE [n |-> n, r |-> r + 25 * G - Y]

\* float(text) for the decimal text of n half cents
float(n) == RoundToDouble(n, 0)

\* a + b on floats
FloatAdd(a, b) == RoundToDouble(a.n + b.n, a.r + b.r)

\* a * i for a float a and an int i
FloatMulInt(a, i) == RoundToDouble(a.n * i, a.r * i)

\* int + float: the int is converted exactly
IntAddFloat(i, a) == FloatAdd([n |-> 200 * i, r |-> 0], a)

\* "{:.1f}".format(a), in cents: one decimal place for two
Format1f(a) ==
    LET tenths == a.n \div 20
        rest == a.n % 20
    IN  IF rest > 10 \/ (rest = 10 /\ (a.r > 0 \/ (a.r = 0 /\ tenths % 2 = 1)))
        THEN 10 * (tenths + 1)
        ELSE 10 * tenths

\* "{:.2f}".format(a): the decimal string with two places that is nearest to
\* the double's exact value, ties to even; the string is given by its number
\* of cents
Format2f(a) ==
    IF a.n % 2 = 0 THEN a.n \div 2
    ELSE IF a.r > 0 THEN (a.n + 1) \div 2
    ELSE IF a.r < 0 THEN (a.n - 1) \div 2
    ELSE IF ((a.n - 1) \div 2) % 2 = 0 THEN (a.n - 1) \div 2
    ELSE (a.n + 1) \div 2

(* ----------------------------- Instance -------------------------------- *)

\* Instance.__init_node_lists_by_depot: the depot's entry of every list
init_node_lists_by_depot(num_days, x, y, start, change, cost) ==
    [pos              |-> << <<x, y>> >>,
     inventory_start  |-> <<start>>,
     inventory_max    |-> <<start + change * num_days>>,
     inventory_min    |-> <<0>>,
     inventory_change |-> <<change>>,
     inventory_cost   |-> <<float(cost)>>]

\* Instance.__append_node_lists_by_customer: one customer appended; out of
\* range start levels only print a warning
append_node_lists_by_customer(self, x, y, start, u, l, change, cost) ==
    [pos              |-> Append(self.pos, <<x, y>>),
     inventory_start  |-> Append(self.inventory_start, start),
     inventory_max    |-> Append(self.inventory_max, u),
     inventory_min    |-> Append(self.inventory_min, l),
     inventory_change |-> Append(self.inventory_change, 0 - change),
     inventory_cost   |-> Append(self.inventory_cost, float(cost))]

RECURSIVE AppendCustomers(_, _)
AppendCustomers(self, customer_lines) ==
    IF customer_lines = <<>> THEN self
    ELSE LET c == Head(customer_lines)
         IN  AppendCustomers(
                 append_node_lists_by_customer(self, c.x, c.y, c.start, c.u,
                                               c.l, c.change, c.cost),
                 Tail(customer_lines))

\* self.nodes = ["depot"] + [f"customer {i}" for i in range(1, num_nodes + 1)]:
\* the name "depot" is 0 and the name "customer i" is i; the list has one
\* name more than there are nodes
node_names(num_nodes) == <<0>> \o [i \in 1 .. num_nodes |-> i]

\* Instance.__init_by_lines
init_by_lines(meta_line, depot_line, customer_lines) ==
    LET lists == AppendCustomers(
                     init_node_lists_by_depot(meta_line[2], depot_line.x,
                         depot_line.y, depot_line.start, depot_line.change,
                         depot_line.cost),
                     customer_lines)
    IN  [num_nodes        |-> meta_line[1],
         num_days         |-> meta_line[2],
         capacity         |-> meta_line[3],
         num_vehicles     |-> meta_line[4],
         nodes            |-> node_names(meta_line[1]),
         pos              |-> lists.pos,
         inventory_start  |-> lists.inventory_start,
         inventory_max    |-> lists.inventory_max,
         inventory_min    |-> lists.inventory_min,
         inventory_change |-> lists.inventory_change,
         inventory_cost   |-> lists.inventory_cost]

\* the instance texts read: 3 nodes, 2 days, capacity 1, 2 vehicles; costs in
\* half cents (0.03, 0.125, 0.25); customer 2's start level varies and lies
\* below, within or above its bounds [1, 2]
InstanceTexts ==
    { [meta  |-> <<3, 2, 1, 2>>,
       depot |-> [x |-> 0, y |-> 0, start |-> 0, change |-> 1, cost |-> 6],
       customers |->
          << [x |-> 1, y |-> 1, start |-> 1, u |-> 2, l |-> 0, change |-> 1,
              cost |-> 25],
             [x |-> 2, y |-> 2, start |-> s, u |-> 2, l |-> 1, change |-> 1,
              cost |-> 50] >>] : s \in 0 .. MaxStart }

Instances == { init_by_lines(t.meta, t.depot, t.customers) : t \in InstanceTexts }

(* ------------------------------- state --------------------------------- *)

VARIABLES
    instance,        \* the Instance the Solution is read and verified against
    routes,          \* Solution.routes: the days read so far (all_routes)
    day_routes,      \* parse_routes: the routes read so far of the current day
    route,           \* parse_route: the stops read so far of the current route
    solution,        \* Solution's reported figures (a figure is drawn when the
                     \* check that reads it runs; nothing reads it before)
    pc,              \* the step verify is at
    d, r, k,         \* verify_inventory_limits_and_cost: day, route and
                     \* stop / node index of the next step
    inventory,       \* verify_inventory_limits_and_cost: the simulated levels
    cost_inventory,  \* verify_inventory_limits_and_cost: holding cost per node
    error,           \* the Solution.Error raised, if any
    last,            \* the simulation step taken last: its kind, node, level
    customer_lines,  \* Instance.__init_by_lines: the customer lines not yet read
    lines,           \* verify: the lines of the solution file
    processors,      \* verify: the benchmark table, processor -> score
    commented_solutions, \* verify: the blocks that prepare_solution returned
    block,           \* verify: the index of the block the loop is at
    call,            \* verify: the call it makes next
    result           \* verify: what it returned, or the exception that ended it

\* the state of the construction of an Instance and of a call of verify
file_vars == <<customer_lines, lines, processors, commented_solutions, block,
               call, result>>

\* the state of the reading and the verification of one Solution
solution_vars == <<instance, routes, day_routes, route, solution, pc, d, r, k,
                   inventory, cost_inventory, error, last>>

vars == <<instance, routes, day_routes, route, solution, pc, d, r, k,
          inventory, cost_inventory, error, last, customer_lines, lines,
          processors, commented_solutions, block, call, result>>

\* no Instance is being constructed and verify is not running: a Solution is
\* read and verified on its own
NoFile ==
    /\ customer_lines = <<>>
    /\ lines = <<>>
    /\ processors = <<>>
    /\ commented_solutions = <<>>
    /\ block = 0
    /\ call = "none"
    /\ result = "None"

(* ------------------------------- errors -------------------------------- *)

NoError == [kind |-> "none", error |-> "", node |-> None, day |-> None,
            route |-> None]

\* Solution.__init__.err: raise ReadError
ReadError(text) == [kind |-> "ReadError", error |-> text, node |-> None,
                    day |-> None, route |-> None]

\* verify_solution.err: raise VerificationError with the optional day and
\* route; node is the name (of self.instance.nodes) in the error text
err(text, node, on_day, on_route) ==
    [kind |-> "VerificationError", error |-> text, node |-> node,
     day |-> on_day, route |-> on_route]

\* verify_solution.expect_equal: the error raised, NoError if none
expect_equal(description, expected, actual) ==
    IF expected # actual THEN err(description, None, None, None) ELSE NoError

\* expect_equal_float that compares the floats themselves
expect_equal_exact(description, expected, actual) ==
    expect_equal(description, expected, actual)

\* verify_solution.expect_equal_float
expect_equal_float(description, expected, actual) ==
    expect_equal(description, Format2f(expected), Format2f(actual))

(* --------------------------- reading routes ---------------------------- *)

RECURSIVE SumLen(_)
SumLen(lists) == IF lists = <<>> THEN 0 ELSE Len(Head(lists)) + SumLen(Tail(lists))

RECURSIVE Concat(_)
Concat(lists) == IF lists = <<>> THEN <<>> ELSE Head(lists) \o Concat(Tail(lists))

\* the number of stops read so far
StopsRead == SumLen(Concat(routes)) + SumLen(day_routes) + Len(route)

\* the customer ids a route text may hold: every node, the first id that is
\* no node, and the negative id -1
CustomerIds == -1 .. instance.num_nodes

Quantities == 0 .. MaxQty

\* parse_remaining_route's customer test
customer_does_not_exist(customer, num_nodes) == customer >= num_nodes

Init ==
    /\ instance \in Instances
    /\ routes = <<>>
    /\ day_routes = <<>>
    /\ route = <<>>
    /\ solution = [cost_transportation |-> 0,
                   cost_inventory_customers |-> float(0),
                   cost_inventory_depot |-> float(0),
                   cost |-> float(0)]
    /\ pc = "parse"
    /\ d = 0 /\ r = 0 /\ k = 0
    /\ inventory = <<>>
    /\ cost_inventory = <<>>
    /\ error = NoError
    /\ last = [op |-> "none", node |-> None, level |-> 0]
    /\ NoFile

\* parse_remaining_route: one stop "customer ( quantity ) -" of the current
\* route; a customer that does not exist is a ReadError
ParseStop ==
    /\ pc = "parse"
    /\ StopsRead < MaxStops
    /\ \E customer \in CustomerIds, quantity \in Quantities :
          IF customer_does_not_exist(customer, instance.num_nodes)
          THEN /\ error' = ReadError("customer does not exist")
               /\ pc' = "done"
               /\ UNCHANGED route
          ELSE /\ route' = Append(route, <<customer, quantity>>)
               /\ UNCHANGED <<error, pc>>
    /\ UNCHANGED <<instance, routes, day_routes, solution, d, r, k, inventory,
                   cost_inventory, last>>
    /\ UNCHANGED file_vars

\* parse_remaining_route's final "0", then parse_routes and
\* parse_days_with_routes append the route, the day when it is complete, and
\* the Solution is constructed when the last day is
ParseRouteEnd ==
    /\ pc = "parse"
    /\ LET new_day == Append(day_routes, route)
       IN  IF Len(new_day) < instance.num_vehicles
           THEN /\ day_routes' = new_day
                /\ UNCHANGED <<routes, pc>>
           ELSE /\ day_routes' = <<>>
                /\ routes' = Append(routes, new_day)
                /\ pc' = IF Len(routes') < instance.num_days
                         THEN "parse"
                         ELSE "verify_at_most_one_delivery"
    /\ route' = <<>>
    /\ UNCHANGED <<instance, solution, d, r, k, inventory, cost_inventory,
                   error, last>>
    /\ UNCHANGED file_vars

(* ------------------- verify_solution: the route checks ----------------- *)

RECURSIVE SumSeq(_)
SumSeq(ints) == IF ints = <<>> THEN 0 ELSE Head(ints) + SumSeq(Tail(ints))

\* the first pair of a set of pairs in the order of two nested loops
FirstPair(pairs) ==
    CHOOSE p \in pairs :
        \A q \in pairs : p[1] < q[1] \/ (p[1] = q[1] /\ p[2] <= q[2])

\* customer_deliveries after the loops over the routes of a day: how many
\* stops index each node
customer_deliveries(num_nodes, routes_of_day) ==
    LET stops == Concat(routes_of_day)
    IN  [i \in 1 .. num_nodes |->
            Cardinality({j \in 1 .. Len(stops) :
                            Index(num_nodes, stops[j][1]) = i})]

\* the test of verify_at_most_one_delivery_to_each_customer_per_day with
\* the wrong limit
delivered_more_than_twice(delivery) == delivery > 2

\* the test of verify_at_most_one_delivery_to_each_customer_per_day
delivered_too_often(delivery) == delivery > 1

\* verify_at_most_one_delivery_to_each_customer_per_day looking at the first
\* day only
DeliveryViolationsOfFirstDay(inst, all_routes) ==
    {p \in {0} \X Range(inst.num_nodes) :
        delivered_too_often(
            At(customer_deliveries(inst.num_nodes, At(all_routes, p[1])), p[2]))}

\* the (day, node) pairs the loops of
\* verify_at_most_one_delivery_to_each_customer_per_day raise an error at
DeliveryViolations(inst, all_routes) ==
    {p \in Range(Len(all_routes)) \X Range(inst.num_nodes) :
        delivered_too_often(
            At(customer_deliveries(inst.num_nodes, At(all_routes, p[1])), p[2]))}

\* verify_at_most_one_delivery_to_each_customer_per_day, all days
VerifyAtMostOneDelivery ==
    /\ pc = "verify_at_most_one_delivery"
    /\ LET violations == DeliveryViolations(instance, routes)
       IN  IF violations # {}
           THEN /\ error' = err("is delivered too often",
                                At(instance.nodes, FirstPair(violations)[2]),
                                FirstPair(violations)[1], None)
                /\ pc' = "done"
           ELSE /\ pc' = "verify_capacities"
                /\ UNCHANGED error
    /\ UNCHANGED <<instance, routes, day_routes, route, solution, d, r, k,
                   inventory, cost_inventory, last>>
    /\ UNCHANGED file_vars

\* volume = sum([quantity for _, quantity in route])
volume(stops) == SumSeq([j \in 1 .. Len(stops) |-> stops[j][2]])

\* the test of verify_capacities with ">=" for ">"
capacity_reached(vol, capacity) == vol >= capacity

\* the test of verify_capacities
capacity_exceeded(vol, capacity) == vol > capacity

\* the (day, route) pairs the loops of verify_capacities raise an error at
CapacityViolations(inst, all_routes) ==
    {p \in Range(Len(all_routes)) \X Range(inst.num_vehicles) :
        capacity_exceeded(volume(At(At(all_routes, p[1]), p[2])),
                          inst.capacity)}

\* verify_capacities, all days and routes
VerifyCapacities ==
    /\ pc = "verify_capacities"
    /\ LET violations == CapacityViolations(instance, routes)
       IN  IF violations # {}
           THEN /\ error' = err("capacity is exceeded", None,
                                FirstPair(violations)[1],
                                FirstPair(violations)[2])
                /\ pc' = "done"
           ELSE /\ pc' = "verify_transportation_costs"
                /\ UNCHANGED error
    /\ UNCHANGED <<instance, routes, day_routes, route, solution, d, r, k,
                   inventory, cost_inventory, last>>
    /\ UNCHANGED file_vars

\* int(math.sqrt(sq) + 0.5) for an integer sq
RoundedSqrt(sq) ==
    CHOOSE x \in 0 .. sq :
        /\ (2 * x + 1) * (2 * x + 1) > 4 * sq
        /\ x = 0 \/ (2 * x - 1) * (2 * x - 1) <= 4 * sq

\* verify_solution.rounded_distance
rounded_distance(pos, s, t) ==
    LET s_x == At(pos, s)[1]
        s_y == At(pos, s)[2]
        t_x == At(pos, t)[1]
        t_y == At(pos, t)[2]
    IN  RoundedSqrt((s_x - t_x) * (s_x - t_x) + (s_y - t_y) * (s_y - t_y))

\* the tour without its way back to the depot
tour_one_way(stops) == <<0>> \o [j \in 1 .. Len(stops) |-> stops[j][1]]

\* tour = [0] + [x for x, _ in route] + [0]
tour(stops) == <<0>> \o [j \in 1 .. Len(stops) |-> stops[j][1]] \o <<0>>

\* the sum of rounded_distance over zip(tour[:-1], tour[1:])
TourCost(pos, nodes) ==
    SumSeq([j \in 1 .. Len(nodes) - 1 |->
               rounded_distance(pos, nodes[j], nodes[j + 1])])

\* cost_transportation after the loops of verify_transportation_costs
transportation_cost(inst, all_routes) ==
    LET all == Concat(all_routes)
    IN  SumSeq([j \in 1 .. Len(all) |-> TourCost(inst.pos, tour(all[j]))])

\* the integers a reported integer figure is drawn from
NearInt(x) == (x - MaxOffset) .. (x + MaxOffset)

\* verify_transportation_costs; the reported figure is read here
VerifyTransportationCosts ==
    /\ pc = "verify_transportation_costs"
    /\ \E reported \in NearInt(transportation_cost(instance, routes)) :
          /\ solution' = [solution EXCEPT !.cost_transportation = reported]
          /\ error' = expect_equal("total transportation cost",
                          transportation_cost(instance, routes), reported)
    /\ pc' = IF error'.kind = "none" THEN "verify_inventory" ELSE "done"
    /\ UNCHANGED <<instance, routes, day_routes, route, d, r, k, inventory,
                   cost_inventory, last>>
    /\ UNCHANGED file_vars

(* --------------- verify_inventory_limits_and_cost ---------------------- *)

\* the next stop of the day at or after stop k of route r, as <<route, stop>>;
\* <<Len(routes_of_day), 0>> when the loops over the day's routes are done
RECURSIVE NextStop(_, _, _)
NextStop(routes_of_day, rr, kk) ==
    IF rr >= Len(routes_of_day) THEN <<rr, 0>>
    ELSE IF kk < Len(At(routes_of_day, rr)) THEN <<rr, kk>>
    ELSE NextStop(routes_of_day, rr + 1, 0)

\* the loop over the days reaches day dd: its first delivery, its daily
\* change when it has no delivery, or the end of the loop
EnterDay(dd) ==
    IF dd >= Len(routes)
    THEN pc' = "verify_inventory_customers" /\ d' = dd /\ r' = 0 /\ k' = 0
    ELSE LET p == NextStop(At(routes, dd), 0, 0)
         IN  /\ d' = dd
             /\ IF p[1] < Len(At(routes, dd))
                THEN pc' = "deliver" /\ r' = p[1] /\ k' = p[2]
                ELSE pc' = "change" /\ r' = 0 /\ k' = 0

\* BeginInventory with a check of the start levels against the bounds
BeginInventoryChecked ==
    /\ pc = "verify_inventory"
    /\ inventory' = instance.inventory_start
    /\ cost_inventory' = [i \in 1 .. instance.num_nodes |-> float(0)]
    /\ last' = [op |-> "begin", node |-> None, level |-> 0]
    /\ IF \E i \in Range(instance.num_nodes) :
             \/ At(instance.inventory_start, i) < At(instance.inventory_min, i)
             \/ At(instance.inventory_start, i) > At(instance.inventory_max, i)
       THEN /\ error' = err("inventory level too low", None, None, None)
            /\ pc' = "done"
            /\ UNCHANGED <<d, r, k>>
       ELSE /\ EnterDay(0)
            /\ UNCHANGED error
    /\ UNCHANGED <<instance, routes, day_routes, route, solution>>
    /\ UNCHANGED file_vars

\* inventory = self.instance.inventory_start.copy() and the zero costs
BeginInventory ==
    /\ pc = "verify_inventory"
    /\ inventory' = instance.inventory_start
    /\ cost_inventory' = [i \in 1 .. instance.num_nodes |-> float(0)]
    /\ EnterDay(0)
    /\ last' = [op |-> "begin", node |-> None, level |-> 0]
    /\ UNCHANGED <<instance, routes, day_routes, route, solution, error>>
    /\ UNCHANGED file_vars

\* apply_delivery without inventory[0] -= delivery: nothing leaves the depot
apply_delivery_added_only(levels, customer, delivery) ==
    SetAt(levels, customer, At(levels, customer) + delivery)

\* inventory[customer] += delivery; inventory[0] -= delivery
apply_delivery(levels, customer, delivery) ==
    LET added == SetAt(levels, customer, At(levels, customer) + delivery)
    IN  SetAt(added, 0, At(added, 0) - delivery)

\* the test after a delivery with ">=" for ">"
level_too_high_or_full(level, inventory_max) == level >= inventory_max

\* the test after a delivery
level_too_high(level, inventory_max) == level > inventory_max

\* step one: the delivery of stop k of route r of day d
Deliver ==
    /\ pc = "deliver"
    /\ LET stop == At(At(At(routes, d), r), k)
           customer == stop[1]
           delivery == stop[2]
           p == NextStop(At(routes, d), r, k + 1)
       IN  /\ inventory' = apply_delivery(inventory, customer, delivery)
           /\ last' = [op |-> "deliver",
                       node |-> Index(Len(inventory), customer) - 1,
                       level |-> At(inventory', customer)]
           /\ IF level_too_high(At(inventory', customer),
                                At(instance.inventory_max, customer))
              THEN /\ error' = err("inventory level too high",
                                   At(instance.nodes, customer), d, r)
                   /\ pc' = "done"
                   /\ UNCHANGED <<d, r, k>>
              ELSE /\ UNCHANGED <<error, d>>
                   /\ IF p[1] < Len(At(routes, d))
                      THEN pc' = "deliver" /\ r' = p[1] /\ k' = p[2]
                      ELSE pc' = "change" /\ r' = 0 /\ k' = 0
    /\ UNCHANGED <<instance, routes, day_routes, route, solution,
                   cost_inventory>>
    /\ UNCHANGED file_vars

\* the test after a node's daily change with "<=" for "<"
level_too_low_or_empty(level, inventory_min) == level <= inventory_min

\* the test after a node's daily change
level_too_low(level, inventory_min) == level < inventory_min

\* Change on an inventory list that is the Instance's inventory_start
\* itself, not a copy: the start level is changed too
ChangeOfStart ==
    /\ pc = "change"
    /\ inventory' = SetAt(inventory, k,
                          At(inventory, k) + At(instance.inventory_change, k))
    /\ instance' = [instance EXCEPT !.inventory_start = inventory']
    /\ last' = [op |-> "change", node |-> k, level |-> At(inventory', k)]
    /\ IF level_too_low(At(inventory', k), At(instance.inventory_min, k))
       THEN /\ error' = err("inventory level too low",
                            At(instance.nodes, k), d, None)
            /\ pc' = "done"
            /\ UNCHANGED k
       ELSE /\ UNCHANGED error
            /\ k' = k + 1
            /\ pc' = IF k + 1 < Len(instance.inventory_change)
                     THEN "change" ELSE "accrue"
    /\ UNCHANGED <<routes, day_routes, route, solution, d, r, cost_inventory>>
    /\ UNCHANGED file_vars

\* step two: the daily change of node k on day d
Change ==
    /\ pc = "change"
    /\ inventory' = SetAt(inventory, k,
                          At(inventory, k) + At(instance.inventory_change, k))
    /\ last' = [op |-> "change", node |-> k, level |-> At(inventory', k)]
    /\ IF level_too_low(At(inventory', k), At(instance.inventory_min, k))
       THEN /\ error' = err("inventory level too low",
                            At(instance.nodes, k), d, None)
            /\ pc' = "done"
            /\ UNCHANGED k
       ELSE /\ UNCHANGED error
            /\ k' = k + 1
            /\ pc' = IF k + 1 < Len(instance.inventory_change)
                     THEN "change" ELSE "accrue"
    /\ UNCHANGED <<instance, routes, day_routes, route, solution, d, r,
                   cost_inventory>>
    /\ UNCHANGED file_vars

\* accrue with "=" for "+=": the earlier days' costs are lost
accrue_overwrite(costs, inventory_cost, levels) ==
    [i \in 1 .. Len(inventory_cost) |->
        FloatMulInt(inventory_cost[i], levels[i])]

\* cost_inventory[i] += cost * inventory[i] for every node
accrue(costs, inventory_cost, levels) ==
    [i \in 1 .. Len(inventory_cost) |->
        FloatAdd(costs[i], FloatMulInt(inventory_cost[i], levels[i]))]

\* update inventory costs of day d, then the next day
Accrue ==
    /\ pc = "accrue"
    /\ cost_inventory' = accrue(cost_inventory, instance.inventory_cost,
                                inventory)
    /\ last' = [op |-> "accrue", node |-> None, level |-> 0]
    /\ EnterDay(d + 1)
    /\ UNCHANGED <<instance, routes, day_routes, route, solution, inventory,
                   error>>
    /\ UNCHANGED file_vars

(* ------------------------ cost reconciliation -------------------------- *)

\* sum(floats): 0 + floats[0] + floats[1] + ...
RECURSIVE SumFrom(_, _)
SumFrom(acc, floats) ==
    IF floats = <<>> THEN acc
    ELSE SumFrom(FloatAdd(acc, Head(floats)), Tail(floats))

sum(floats) ==
    IF floats = <<>> THEN float(0)
    ELSE SumFrom(IntAddFloat(0, Head(floats)), Tail(floats))

\* the floats a reported float figure is drawn from: the texts with up to
\* three decimals (whole half cents) near the figure it is compared with
NearFloat(a) ==
    {float(m) : m \in {x \in (a.n - MaxOffset) .. (a.n + MaxOffset) : x >= 0}}

\* the first expect_equal_float of verify_inventory_limits_and_cost; the
\* reported figure is read here
VerifyInventoryCustomers ==
    /\ pc = "verify_inventory_customers"
    /\ \E reported \in NearFloat(sum(Tail(cost_inventory))) :
          /\ solution' = [solution EXCEPT !.cost_inventory_customers = reported]
          /\ error' = expect_equal_float("total inventory cost at customers",
                          sum(Tail(cost_inventory)), reported)
    /\ pc' = IF error'.kind = "none" THEN "verify_inventory_depot" ELSE "done"
    /\ UNCHANGED <<instance, routes, day_routes, route, d, r, k, inventory,
                   cost_inventory, last>>
    /\ UNCHANGED file_vars

\* the second expect_equal_float of verify_inventory_limits_and_cost
VerifyInventoryDepot ==
    /\ pc = "verify_inventory_depot"
    /\ \E reported \in NearFloat(At(cost_inventory, 0)) :
          /\ solution' = [solution EXCEPT !.cost_inventory_depot = reported]
          /\ error' = expect_equal_float("total inventory cost at depot",
                          At(cost_inventory, 0), reported)
    /\ pc' = IF error'.kind = "none" THEN "verify_total_cost" ELSE "done"
    /\ UNCHANGED <<instance, routes, day_routes, route, d, r, k, inventory,
                   cost_inventory, last>>
    /\ UNCHANGED file_vars

\* the total of the figures that verify_solution computed
total_cost_computed(sol) ==
    FloatAdd(IntAddFloat(transportation_cost(instance, routes),
                         At(cost_inventory, 0)),
             sum(Tail(cost_inventory)))

\* the total that verify_total_cost compares self.cost with
total_cost(sol) ==
    FloatAdd(IntAddFloat(sol.cost_transportation, sol.cost_inventory_depot),
             sol.cost_inventory_customers)

\* verify_total_cost; self.cost is read here; verify_solution returns
VerifyTotalCost ==
    /\ pc = "verify_total_cost"
    /\ \E reported \in NearFloat(total_cost(solution)) :
          /\ solution' = [solution EXCEPT !.cost = reported]
          /\ error' = expect_equal_float("total cost", total_cost(solution),
                                         reported)
    /\ pc' = "done"
    /\ UNCHANGED <<instance, routes, day_routes, route, d, r, k, inventory,
                   cost_inventory, last>>
    /\ UNCHANGED file_vars

\* the error that the cost checks of verify_solution raise for the reported
\* figures sol, given the costs computed from the routes: the first mismatch
\* in the order of the checks, NoError if there is none
reconcile(sol) ==
    LET transportation ==
            expect_equal("total transportation cost",
                         transportation_cost(instance, routes),
                         sol.cost_transportation)
        customers ==
            expect_equal_float("total inventory cost at customers",
                               sum(Tail(cost_inventory)),
                               sol.cost_inventory_customers)
        depot ==
            expect_equal_float("total inventory cost at depot",
                               At(cost_inventory, 0), sol.cost_inventory_depot)
        total ==
            expect_equal_float("total cost", total_cost(sol), sol.cost)
    IN  IF transportation # NoError THEN transportation
        ELSE IF customers # NoError THEN customers
        ELSE IF depot # NoError THEN depot
        ELSE total

(* --------------------------- specification ----------------------------- *)

Next ==
    \/ ParseStop
    \/ ParseRouteEnd
    \/ VerifyAtMostOneDelivery
    \/ VerifyCapacities
    \/ VerifyTransportationCosts
    \/ BeginInventory
    \/ Deliver
    \/ Change
    \/ Accrue
    \/ VerifyInventoryCustomers
    \/ VerifyInventoryDepot
    \/ VerifyTotalCost

Spec == Init /\ [][Next]_vars

(* ---------------------- constructing an Instance ----------------------- *)

\* most customer lines of an instance text
MaxCustomerLines == 3

\* the customer lines an instance text is made of
CustomerLineTexts ==
    UNION {{t.customers[j] : j \in 1 .. Len(t.customers)} : t \in InstanceTexts}

\* the sequences of at most n customer lines
RECURSIVE CustomerLineLists(_)
CustomerLineLists(n) ==
    IF n = 0 THEN {<<>>}
    ELSE LET shorter == CustomerLineLists(n - 1)
         IN  shorter \cup {Append(l, c) : l \in shorter, c \in CustomerLineTexts}

\* Instance.__init_by_lines up to the loop over the customer lines: the meta
\* line says 2 or 3 nodes, whatever the number of customer lines that follow
InstanceInit ==
    /\ \E t \in InstanceTexts, num_nodes \in {2, 3} :
          instance = init_by_lines(<<num_nodes, t.meta[2], t.meta[3], t.meta[4]>>,
                                   t.depot, <<>>)
    /\ customer_lines \in CustomerLineLists(MaxCustomerLines)
    /\ call = "Instance"
    /\ routes = <<>> /\ day_routes = <<>> /\ route = <<>>
    /\ solution = [cost_transportation |-> 0,
                   cost_inventory_customers |-> float(0),
                   cost_inventory_depot |-> float(0),
                   cost |-> float(0)]
    /\ pc = "none"
    /\ d = 0 /\ r = 0 /\ k = 0
    /\ inventory = <<>> /\ cost_inventory = <<>>
    /\ error = NoError
    /\ last = [op |-> "none", node |-> None, level |-> 0]
    /\ lines = <<>> /\ processors = <<>> /\ commented_solutions = <<>>
    /\ block = 0 /\ result = "None"

\* one turn of the loop of __init_by_lines: the next customer line is appended
\* to the per-node lists
ReadCustomerLine ==
    /\ call = "Instance"
    /\ customer_lines # <<>>
    /\ LET c == Head(customer_lines)
           lists == append_node_lists_by_customer(instance, c.x, c.y, c.start,
                                                  c.u, c.l, c.change, c.cost)
       IN  instance' = [instance EXCEPT
                           !.pos = lists.pos,
                           !.inventory_start = lists.inventory_start,
                           !.inventory_max = lists.inventory_max,
                           !.inventory_min = lists.inventory_min,
                           !.inventory_change = lists.inventory_change,
                           !.inventory_cost = lists.inventory_cost]
    /\ customer_lines' = Tail(customer_lines)
    /\ UNCHANGED <<routes, day_routes, route, solution, pc, d, r, k, inventory,
                   cost_inventory, error, last, lines, processors,
                   commented_solutions, block, call, result>>

\* the loop is over: the Instance is constructed, no exception raised
InstanceConstructed ==
    /\ call = "Instance"
    /\ customer_lines = <<>>
    /\ call' = "constructed"
    /\ UNCHANGED <<solution_vars, customer_lines, lines, processors,
                   commented_solutions, block, result>>

InstanceNext == ReadCustomerLine \/ InstanceConstructed

InstanceSpec == InstanceInit /\ [][InstanceNext]_vars

(* --------------------------- prepare_solution -------------------------- *)

\* A line is the sequence of the tokens that single spaces separate; the
\* empty line has none.

\* len(line) > 0 and line[0] == "#"
is_comment(line) == line # <<>> /\ Head(line) = "#"

\* delimiter = "Day 1"
delimiter == <<"Day", "1">>

\* the loop of prepare_solution: a line equal to the delimiter opens a block,
\* and every line goes to the comments or to the lines of the last block
RECURSIVE split_at_delimiter(_, _)
split_at_delimiter(blocks, rest) ==
    IF rest = <<>> THEN blocks
    ELSE LET line == Head(rest)
             opened == IF line = delimiter
                       THEN Append(blocks, [comments |-> <<>>, lines |-> <<>>])
                       ELSE blocks
             cur == opened[Len(opened)]
             filled == IF is_comment(line)
                       THEN [cur EXCEPT !.comments = Append(@, line)]
                       ELSE [cur EXCEPT !.lines = Append(@, line)]
         IN  split_at_delimiter([opened EXCEPT ![Len(opened)] = filled],
                                Tail(rest))

\* prepare_solution: the blocks (commentary, grammar lines) of a solution
\* text, or the IndexError of commented_solutions[0] when the special mode
\* finds no delimiter
prepare_solution(ls) ==
    IF ls # <<>> /\ is_comment(Head(ls))
    THEN LET blocks == split_at_delimiter(
                           <<[comments |-> <<>>, lines |-> <<>>]>>, ls)
             prelude == Head(blocks)
             others == Tail(blocks)
         IN  IF others = <<>>
             THEN [raised |-> "IndexError", value |-> <<>>]
             ELSE [raised |-> "none",
                   value |-> [others EXCEPT ![1] =
                                 [comments |-> prelude.comments \o @.comments,
                                  lines |-> prelude.lines \o @.lines]]]
    ELSE [raised |-> "none", value |-> <<[comments |-> <<>>, lines |-> ls]>>]

(* ------------------------- Solution.__init__ --------------------------- *)

\* the tokens that int() converts, and their values
IntTokens == {"-1", "0", "1", "2", "3", "8", "1800", "1801"}

int(token) ==
    CASE token = "-1" -> 0 - 1
      [] token = "0" -> 0
      [] token = "1" -> 1
      [] token = "2" -> 2
      [] token = "3" -> 3
      [] token = "8" -> 8
      [] token = "1800" -> 1800
      [] token = "1801" -> 1801

\* the other tokens that float() converts, and their values in half cents
DecimalTokens == {"0.00", "0.62", "0.63", "8.62", "8.63"}

HalfCents(token) ==
    CASE token = "0.00" -> 0
      [] token = "0.62" -> 124
      [] token = "0.63" -> 126
      [] token = "8.62" -> 1724
      [] token = "8.63" -> 1726

\* an exception that is not a Solution.Error
Exception(name) == [kind |-> name, error |-> "", node |-> None, day |-> None,
                    route |-> None]

\* a parse step's outcome: the error raised (NoError if none), the value
\* returned and the lines left
Parsed(e, v, ls) == [error |-> e, value |-> v, rest |-> ls]

\* parse_int_line: next_line, then int() of the whole line
parse_int_line(description, ls) ==
    IF ls = <<>> THEN Parsed(ReadError("missing line"), 0, ls)
    ELSE IF Len(Head(ls)) = 1 /\ Head(ls)[1] \in IntTokens
    THEN Parsed(NoError, int(Head(ls)[1]), Tail(ls))
    ELSE Parsed(ReadError(description), 0, Tail(ls))

\* parse_float_line: next_line, then float() of the whole line
parse_float_line(description, ls) ==
    IF ls = <<>> THEN Parsed(ReadError("missing line"), 0, ls)
    ELSE IF Len(Head(ls)) = 1 /\ Head(ls)[1] \in IntTokens
    THEN Parsed(NoError, [n |-> 200 * int(Head(ls)[1]), r |-> 0], Tail(ls))
    ELSE IF Len(Head(ls)) = 1 /\ Head(ls)[1] \in DecimalTokens
    THEN Parsed(NoError, float(HalfCents(Head(ls)[1])), Tail(ls))
    ELSE Parsed(ReadError(description), 0, Tail(ls))

\* self.instance.days[d] and self.instance.routes[r] as lines
DayNames == <<"1", "2", "3">>

RouteNames == <<"1:", "2:", "3:">>

\* expect_day_line(d)
expect_day_line(dd, ls) ==
    IF ls = <<>> THEN Parsed(ReadError("missing line"), <<>>, ls)
    ELSE IF Head(ls) = <<"Day", DayNames[dd + 1]>>
    THEN Parsed(NoError, <<>>, Tail(ls))
    ELSE Parsed(ReadError("expected day"), <<>>, Tail(ls))

\* expect_route_line(r): line.split(": ") must give "Route r" and the route,
\* whose tokens are returned; ": " is where a token that ends with a colon
\* is followed by another token
expect_route_line(rr, ls) ==
    IF ls = <<>> THEN Parsed(ReadError("missing line"), <<>>, ls)
    ELSE LET line == Head(ls)
             separators == {j \in 1 .. Len(line) - 1 :
                               line[j] \in {RouteNames[n] : n \in 1 .. 3}}
         IN  IF /\ separators = {2}
                /\ line[1] = "Route"
                /\ line[2] = RouteNames[rr + 1]
             THEN Parsed(NoError, SubSeq(line, 3, Len(line)), Tail(ls))
             ELSE Parsed(ReadError("expected route"), <<>>, Tail(ls))

\* an argument of parse_route or parse_remaining_route: <<token>>, or <<>>
\* for None where the route has no token left for it
Arg(args, j) == IF j <= Len(args) THEN <<args[j]>> ELSE <<>>

\* the arguments after the first n
Remaining(args, n) == IF Len(args) <= n THEN <<>> ELSE SubSeq(args, n + 1, Len(args))

\* parse_int: the error raised by int(value); int(None) is a TypeError
parse_int(description, value) ==
    IF value = <<>> THEN Exception("TypeError")
    ELSE IF value[1] \in IntTokens THEN NoError
    ELSE ReadError(description)

\* check_expected
check_expected(actual, expected, info) ==
    IF actual # <<expected>> THEN ReadError(info) ELSE NoError

\* the first error of a list of errors in the order they are tested
FirstError(errors) ==
    IF \A j \in 1 .. Len(errors) : errors[j] = NoError THEN NoError
    ELSE errors[CHOOSE j \in 1 .. Len(errors) :
                    /\ errors[j] # NoError
                    /\ \A h \in 1 .. j - 1 : errors[h] = NoError]

\* parse_remaining_route: the error raised and the stops returned
RECURSIVE parse_remaining_route(_, _)
parse_remaining_route(num_nodes, args) ==
    LET customer_str == Arg(args, 1)
        open_par == Arg(args, 2)
        quantity_str == Arg(args, 3)
        close_par == Arg(args, 4)
        dash == Arg(args, 5)
        customer_error == parse_int("customer in route", customer_str)
        stop_error ==
            IF customer_error # NoError THEN customer_error
            ELSE IF customer_does_not_exist(int(customer_str[1]), num_nodes)
            THEN ReadError("customer does not exist")
            ELSE FirstError(<<check_expected(open_par, "(", "expected ( in route"),
                              parse_int("delivered quantity in route",
                                        quantity_str),
                              check_expected(close_par, ")", "expected ) in route"),
                              check_expected(dash, "-", "expected delimiter in route")>>)
    IN  IF open_par = <<>>
        THEN IF customer_str = <<"0">>
             THEN [error |-> NoError, value |-> <<>>]
             ELSE [error |-> ReadError("expected depot (0) at end of route"),
                   value |-> <<>>]
        ELSE IF stop_error # NoError
        THEN [error |-> stop_error, value |-> <<>>]
        ELSE LET remaining == parse_remaining_route(num_nodes, Remaining(args, 5))
             IN  IF remaining.error # NoError
                 THEN [error |-> remaining.error, value |-> <<>>]
                 ELSE [error |-> NoError,
                       value |-> <<<<int(customer_str[1]),
                                     int(quantity_str[1])>>>>
                                 \o remaining.value]

\* parse_route
parse_route(num_nodes, args) ==
    LET start_zero == Arg(args, 1)
        start_dash == Arg(args, 2)
    IN  IF start_dash = <<>>
        THEN [error |-> ReadError("route is too short to be valid"),
              value |-> <<>>]
        ELSE IF start_zero # <<"0">>
        THEN [error |-> ReadError("route does not start at depot"),
              value |-> <<>>]
        ELSE IF start_dash # <<"-">>
        THEN [error |-> ReadError("expected first node delimiter"),
              value |-> <<>>]
        ELSE parse_remaining_route(num_nodes, Remaining(args, 2))

\* parse_routes, from route rr on: the routes of one day
RECURSIVE parse_routes(_, _, _, _)
parse_routes(inst, rr, read, ls) ==
    IF rr >= inst.num_vehicles THEN Parsed(NoError, read, ls)
    ELSE LET line == expect_route_line(rr, ls)
             parsed == parse_route(inst.num_nodes, line.value)
         IN  IF line.error # NoError THEN Parsed(line.error, read, line.rest)
             ELSE IF parsed.error # NoError
             THEN Parsed(parsed.error, read, line.rest)
             ELSE parse_routes(inst, rr + 1, Append(read, parsed.value),
                               line.rest)

\* parse_days_with_routes, from day dd on
RECURSIVE parse_days_with_routes(_, _, _, _)
parse_days_with_routes(inst, dd, all_routes, ls) ==
    IF dd >= inst.num_days THEN Parsed(NoError, all_routes, ls)
    ELSE LET day == expect_day_line(dd, ls)
             parsed == parse_routes(inst, 0, <<>>, day.rest)
         IN  IF day.error # NoError THEN Parsed(day.error, all_routes, day.rest)
             ELSE IF parsed.error # NoError
             THEN Parsed(parsed.error, all_routes, parsed.rest)
             ELSE parse_days_with_routes(inst, dd + 1,
                                         Append(all_routes, parsed.value),
                                         parsed.rest)

\* self.processor = next_line("processor")
parse_processor_line(ls) ==
    IF ls = <<>> THEN Parsed(ReadError("missing line"), <<>>, ls)
    ELSE Parsed(NoError, Head(ls), Tail(ls))

\* the loop over the lines left: any line that is not empty is junk
junk(ls) ==
    IF \E j \in 1 .. Len(ls) : ls[j] # <<>>
    THEN ReadError("line contains unexpected junk") ELSE NoError

\* the fields of a Solution that is not constructed
NoSolution == [cost_transportation |-> 0,
               cost_inventory_customers |-> float(0),
               cost_inventory_depot |-> float(0),
               cost |-> float(0),
               processor |-> <<>>,
               time |-> float(0)]

\* the Solution of the six lines read after the routes and of the error of
\* the loop over the lines then left: the first error raised, and the fields
figures_read(cost_transportation, cost_inventory_customers, cost_inventory_depot, cost, processor, time, junk_error) ==
    [error |-> FirstError(<<cost_transportation.error,
                            cost_inventory_customers.error,
                            cost_inventory_depot.error, cost.error,
                            processor.error, time.error, junk_error>>),
     value |-> [cost_transportation |-> cost_transportation.value,
                cost_inventory_customers |-> cost_inventory_customers.value,
                cost_inventory_depot |-> cost_inventory_depot.value,
                cost |-> cost.value,
                processor |-> processor.value,
                time |-> time.value]]

\* the six lines after the routes and the loop over the lines then left;
\* each line is read from the lines that the lines before it have left
figures(ls) ==
    figures_read(
        parse_int_line("total transportation cost", ls),
        parse_float_line("total inventory cost at customers", Remaining(ls, 1)),
        parse_float_line("total inventory cost at depot", Remaining(ls, 2)),
        parse_float_line("total solution cost", Remaining(ls, 3)),
        parse_processor_line(Remaining(ls, 4)),
        parse_float_line("solution time in seconds", Remaining(ls, 5)),
        junk(Remaining(ls, 6)))

\* the Solution of the routes and the fields read: the first error raised,
\* else the routes and the fields
solution_read(all_routes, fields) ==
    IF all_routes.error # NoError
    THEN [error |-> all_routes.error, routes |-> <<>>, solution |-> NoSolution]
    ELSE IF fields.error # NoError
    THEN [error |-> fields.error, routes |-> <<>>, solution |-> NoSolution]
    ELSE [error |-> NoError, routes |-> all_routes.value,
          solution |-> fields.value]

\* Solution.__init__: the error raised, the routes and the fields read; the
\* routes, when they are read without an error, have taken one line per
\* day and one per route
Solution(inst, ls) ==
    solution_read(
        parse_days_with_routes(inst, 0, <<>>, ls),
        figures(Remaining(ls, inst.num_days * (inst.num_vehicles + 1))))

(* ------------------------------ verify --------------------------------- *)

\* base_timelimit = 30 * 60
base_timelimit == 1800

\* verify_time that rejects a time equal to the limit
verify_time_below_limit(sol, table) ==
    IF sol.processor \notin DOMAIN table
    THEN err("Time verification error: processor is unknown", None, None, None)
    ELSE LET mark == table[sol.processor]
         IN  IF mark = 0 THEN Exception("ZeroDivisionError")
             ELSE IF sol.time.n * mark >= 200 * 2000 * base_timelimit
             THEN err("Time verification error: computation time exceeds time limit",
                      None, None, None)
             ELSE NoError

\* verify_time: the error raised. A time is a whole number of seconds, held
\* in half cents; "time > (2000 / mark) * base_timelimit" is compared after
\* multiplying both sides by mark, which is exact for the marks of
\* ProcessorTables; 2000 / 0 is a ZeroDivisionError
verify_time(sol, table) ==
    IF sol.processor \notin DOMAIN table
    THEN err("Time verification error: processor is unknown", None, None, None)
    ELSE LET mark == table[sol.processor]
         IN  IF mark = 0 THEN Exception("ZeroDivisionError")
             ELSE IF sol.time.n * mark > 200 * 2000 * base_timelimit
             THEN err("Time verification error: computation time exceeds time limit",
                      None, None, None)
             ELSE NoError

\* most blocks of a solution text made of blocks
MaxBlocks == 2

\* most lines of a solution text made of arbitrary lines
MaxLines == 4

\* the instance the solution texts are verified against: customer 2 starts
\* within its bounds
VerifyInstance ==
    LET t == CHOOSE t \in InstanceTexts : t.customers[2].start = 2
    IN  init_by_lines(t.meta, t.depot, t.customers)

\* a route line "Route r: <route>"
RouteLine(name, text) == <<"Route", name>> \o text

\* a block of the instance's grammar: the first route of day 1 serves
\* customer 1 unless another text is given, the first route of day 2
\* serves customer 2, and the figures are those of these routes unless
\* another total is given
BlockText(first_route, total, processor, time) ==
    << <<"Day", "1">>,
       RouteLine("1:", first_route),
       RouteLine("2:", <<"0", "-", "0">>),
       <<"Day", "2">>,
       RouteLine("1:", <<"0", "-", "2", "(", "1", ")", "-", "0">>),
       RouteLine("2:", <<"0", "-", "0">>),
       <<"8">>, <<"0.62">>, <<"0.00">>, <<total>>, processor, <<time>> >>

\* the texts of the first route of day 1: one delivery to customer 1, no
\* delivery, a delivery to the id -1, to customer 3 that does not exist,
\* and a stop that ends after its opening parenthesis
FirstRouteTexts ==
    { <<"0", "-", "1", "(", "1", ")", "-", "0">>,
      <<"0", "-", "0">>,
      <<"0", "-", "-1", "(", "1", ")", "-", "0">>,
      <<"0", "-", "3", "(", "1", ")", "-", "0">>,
      <<"0", "-", "1", "(">> }

GoodRoute == <<"0", "-", "1", "(", "1", ")", "-", "0">>

\* a text without line j, with line j twice, with lines j and j + 1 swapped,
\* and with a line more after line j
WithoutLine(text, j) == SubSeq(text, 1, j - 1) \o SubSeq(text, j + 1, Len(text))

WithLineTwice(text, j) == SubSeq(text, 1, j) \o SubSeq(text, j, Len(text))

WithLinesSwapped(text, j) ==
    SubSeq(text, 1, j - 1) \o <<text[j + 1], text[j]>>
        \o SubSeq(text, j + 2, Len(text))

WithLineAfter(text, j, line) ==
    SubSeq(text, 1, j) \o <<line>> \o SubSeq(text, j + 1, Len(text))

\* the lines of BlockText that are day and route headers
HeaderLines == 1 .. 6

\* blocks whose headers are missing, repeated, out of order or too many
HeaderEdits(text) ==
    {WithoutLine(text, j) : j \in HeaderLines}
        \cup {WithLineTwice(text, j) : j \in HeaderLines}
        \cup {WithLinesSwapped(text, j) : j \in HeaderLines \ {6}}
        \cup {WithLineAfter(text, 3, RouteLine("3:", <<"0", "-", "0">>)),
              WithLineAfter(text, 6, <<"Day", "3">>)}

\* the blocks a solution text starts with
FirstBlocks ==
    {BlockText(first_route, "8.62", processor, time) :
        first_route \in FirstRouteTexts,
        processor \in {<<"cpu">>, <<"gpu">>},
        time \in {"0", "1800", "1801"}}
        \cup {BlockText(GoodRoute, "8.63", <<"cpu">>, "1800")}
        \cup HeaderEdits(BlockText(GoodRoute, "8.62", <<"cpu">>, "1800"))
        \cup HeaderEdits(BlockText(<<"0", "-", "1", "(">>, "8.62", <<"cpu">>,
                                   "1800"))
        \cup {WithLineAfter(BlockText(GoodRoute, "8.62", <<"cpu">>, "1800"), 12,
                            line) : line \in {<<>>, <<"8">>}}
        \cup {WithoutLine(BlockText(GoodRoute, "8.62", <<"cpu">>, "1800"), 12)}

\* the blocks that follow
LaterBlocks ==
    {BlockText(GoodRoute, "8.62", <<"cpu">>, "1800"),
     BlockText(GoodRoute, "8.62", <<"cpu">>, "1801"),
     BlockText(GoodRoute, "8.63", <<"cpu">>, "1800"),
     BlockText(<<"0", "-", "1", "(">>, "8.62", <<"cpu">>, "1800"),
     WithoutLine(BlockText(GoodRoute, "8.62", <<"cpu">>, "1800"), 4)}

\* the texts of at most n blocks that follow
RECURSIVE LaterTexts(_)
LaterTexts(n) ==
    IF n = 0 THEN {<<>>}
    ELSE LET shorter == LaterTexts(n - 1)
         IN  shorter \cup {t \o b : t \in shorter, b \in LaterBlocks}

\* the lines of the texts of arbitrary lines
LineAlphabet == {<<"#">>, <<"Day", "1">>, <<"Day", "2">>, <<"8">>, <<>>}

\* the texts of at most n arbitrary lines
RECURSIVE LineLists(_)
LineLists(n) ==
    IF n = 0 THEN {<<>>}
    ELSE LET shorter == LineLists(n - 1)
         IN  shorter \cup {Append(t, line) : t \in shorter, line \in LineAlphabet}

\* the solution texts read: blocks, with or without a first comment line,
\* and arbitrary lines
SolutionTexts ==
    {prefix \o first \o later :
        prefix \in {<<>>, <<<<"#">>>>},
        first \in FirstBlocks,
        later \in LaterTexts(MaxBlocks - 1)}
        \cup LineLists(MaxLines)

\* the benchmark tables: the score of the one processor known is the base
\* score, twice the base score, or 0
ProcessorTables == {[p \in {<<"cpu">>} |-> mark] : mark \in {0, 2000, 4000}}

\* verify after the Instance is read: the solution file is read and split
VerifyInit ==
    /\ instance = VerifyInstance
    /\ lines \in SolutionTexts
    /\ processors \in ProcessorTables
    /\ call = "prepare_solution"
    /\ commented_solutions = <<>>
    /\ block = 0
    /\ result = "None"
    /\ customer_lines = <<>>
    /\ routes = <<>> /\ day_routes = <<>> /\ route = <<>>
    /\ solution = NoSolution
    /\ pc = "none"
    /\ d = 0 /\ r = 0 /\ k = 0
    /\ inventory = <<>> /\ cost_inventory = <<>>
    /\ error = NoError
    /\ last = [op |-> "none", node |-> None, level |-> 0]

\* what verify leaves alone
verify_unchanged ==
    UNCHANGED <<instance, day_routes, route, pc, d, r, k, inventory,
                cost_inventory, last, customer_lines, lines, processors>>

\* Raise that reports a failed verification as a pass
RaiseReadErrorsOnly(e) ==
    /\ error' = e
    /\ IF e.kind \in {"ReadError", "VerificationError"}
       THEN /\ call' = "returned"
            /\ result' = IF e.kind = "ReadError" THEN "False" ELSE "True"
       ELSE call' = "raised" /\ result' = e.kind

\* the end of a step of the loop of verify that raised the error e: a
\* Solution.Error is caught and verify returns False, any other exception
\* leaves verify
Raise(e) ==
    /\ error' = e
    /\ IF e.kind \in {"ReadError", "VerificationError"}
       THEN call' = "returned" /\ result' = "False"
       ELSE call' = "raised" /\ result' = e.kind

\* commented_solutions = prepare_solution(solution.read().splitlines())
PrepareSolution ==
    /\ call = "prepare_solution"
    /\ LET prepared == prepare_solution(lines)
       IN  IF prepared.raised # "none"
           THEN /\ Raise(Exception(prepared.raised))
                /\ UNCHANGED <<commented_solutions, block>>
           ELSE /\ commented_solutions' = prepared.value
                /\ block' = 1
                /\ call' = "Solution"
                /\ UNCHANGED <<error, result>>
    /\ UNCHANGED <<routes, solution>>
    /\ verify_unchanged

\* the step of verify after the constructor of the Solution ended
Constructed(constructed) ==
    IF constructed.error # NoError
    THEN /\ Raise(constructed.error)
         /\ UNCHANGED <<routes, solution>>
    ELSE /\ routes' = constructed.routes
         /\ solution' = constructed.solution
         /\ call' = "verify_solution"
         /\ UNCHANGED <<error, result>>

\* solution = Solution(instance, lines) for the lines of the current block
ConstructSolution ==
    /\ call = "Solution"
    /\ Constructed(Solution(instance, commented_solutions[block].lines))
    /\ UNCHANGED <<commented_solutions, block>>
    /\ verify_unchanged

(* --------------------------- parsing a route --------------------------- *)

\* the text of an integer
Text(n) == CHOOSE token \in IntTokens : int(token) = n

\* the text of a route: "0 - ", then "c ( q ) - " for each stop, then "0"
RECURSIVE StopsText(_)
StopsText(stops) ==
    IF stops = <<>> THEN <<>>
    ELSE <<Text(Head(stops)[1]), "(", Text(Head(stops)[2]), ")", "-">>
            \o StopsText(Tail(stops))

RouteText(stops) == <<"0", "-">> \o StopsText(stops) \o <<"0">>

\* the lists of at most n stops from a set of stops
RECURSIVE StopLists(_, _)
StopLists(n, stops) ==
    IF n = 0 THEN {<<>>}
    ELSE LET shorter == StopLists(n - 1, stops)
         IN  shorter \cup {Append(l, stop) : l \in shorter, stop \in stops}

\* the tokens a route text is changed with
RouteTokens == {"0", "1", "(", ")", "-", "x"}

\* a text without token j, with another token j, and with a token more
\* before token j
TextEdits(text) ==
    {WithoutLine(text, j) : j \in 1 .. Len(text)}
        \cup {[text EXCEPT ![j] = token] :
                 j \in 1 .. Len(text), token \in RouteTokens}
        \cup {WithLineAfter(text, j, token) :
                 j \in 0 .. Len(text), token \in RouteTokens}

\* the route texts parsed: the texts of the stops with a customer id from
\* -1 to num_nodes and a quantity from -1 to MaxQty, and the texts of
\* deliveries of 1 to the customers, changed in one token
RouteTexts ==
    {RouteText(stops) :
        stops \in StopLists(MaxStops, (-1 .. VerifyInstance.num_nodes)
                                         \X (-1 .. MaxQty))}
        \cup UNION {TextEdits(RouteText(stops)) :
                       stops \in StopLists(MaxStops,
                                           (1 .. VerifyInstance.num_nodes - 1)
                                              \X {1})}

\* route = expect_route_line(r).split(" ") is at hand
RouteInit ==
    /\ instance = VerifyInstance
    /\ lines \in {<<text>> : text \in RouteTexts}
    /\ call = "parse_route"
    /\ processors = <<>>
    /\ commented_solutions = <<>>
    /\ block = 0
    /\ result = "None"
    /\ customer_lines = <<>>
    /\ routes = <<>> /\ day_routes = <<>> /\ route = <<>>
    /\ solution = NoSolution
    /\ pc = "none"
    /\ d = 0 /\ r = 0 /\ k = 0
    /\ inventory = <<>> /\ cost_inventory = <<>>
    /\ error = NoError
    /\ last = [op |-> "none", node |-> None, level |-> 0]

\* route = parse_route(*route)
ParseRoute ==
    /\ call = "parse_route"
    /\ LET parsed == parse_route(instance.num_nodes, lines[1])
       IN  /\ route' = parsed.value
           /\ error' = parsed.error
    /\ call' = "parsed"
    /\ UNCHANGED <<instance, routes, day_routes, solution, pc, d, r, k,
                   inventory, cost_inventory, last, customer_lines, lines,
                   processors, commented_solutions, block, result>>

RouteNext == ParseRoute

RouteSpec == RouteInit /\ [][RouteNext]_vars

(* ------------------ what the routes and the instance say --------------- *)

\* the stops of day dd in the order of its routes
StopsOfDay(dd) == Concat(At(routes, dd))

\* the quantity that the stops of a list bring to node i (every stop when
\* i is None)
RECURSIVE QuantityTo(_, _)
QuantityTo(stops, i) ==
    IF stops = <<>> THEN 0
    ELSE (IF i = None \/ Index(instance.num_nodes, Head(stops)[1]) = i + 1
          THEN Head(stops)[2] ELSE 0) + QuantityTo(Tail(stops), i)

\* what the stops of a list add to the level of node i: its own deliveries,
\* and for the depot minus everything that leaves it
NetDelivery(stops, i) ==
    QuantityTo(stops, i) - (IF i = 0 THEN QuantityTo(stops, None) ELSE 0)

\* the level of node i at the end of day dd (0-based; -1 is the start):
\* the start level, all deliveries of the days up to dd and dd + 1 daily
\* changes
RECURSIVE EndLevel(_, _)
EndLevel(i, dd) ==
    IF dd < 0 THEN At(instance.inventory_start, i)
    ELSE EndLevel(i, dd - 1) + NetDelivery(StopsOfDay(dd), i)
         + At(instance.inventory_change, i)

\* H[i] up to day dd: the holding cost of node i, accrued day after day from
\* the level at the end of each day
RECURSIVE HoldingCost(_, _)
HoldingCost(i, dd) ==
    IF dd < 0 THEN float(0)
    ELSE FloatAdd(HoldingCost(i, dd - 1),
                  FloatMulInt(At(instance.inventory_cost, i), EndLevel(i, dd)))

\* the stops of day d that the simulation has applied when it is at stop k
\* of route r
AppliedStops ==
    Concat(SubSeq(At(routes, d), 1, r)) \o SubSeq(At(At(routes, d), r), 1, k)

Nodes == Range(instance.num_nodes)

\* the stops of day d applied when the delivery of stop k of route r raised
AppliedThrough ==
    Concat(SubSeq(At(routes, d), 1, r)) \o SubSeq(At(At(routes, d), r), 1, k + 1)

\* the checks in the order verify_solution runs them, after the parse
CheckOrder ==
    <<"parse", "verify_at_most_one_delivery", "verify_capacities",
      "verify_transportation_costs", "verify_inventory",
      "verify_inventory_customers", "verify_inventory_depot",
      "verify_total_cost">>

\* the check that a step belongs to
CheckOfStep(step) ==
    IF step \in {"deliver", "change", "accrue"} THEN "verify_inventory" ELSE step

\* the check that raises an error text
CheckOfError(text) ==
    CASE text = "customer does not exist" -> "parse"
      [] text = "is delivered too often" -> "verify_at_most_one_delivery"
      [] text = "capacity is exceeded" -> "verify_capacities"
      [] text = "total transportation cost" -> "verify_transportation_costs"
      [] text \in {"inventory level too high", "inventory level too low"} ->
             "verify_inventory"
      [] text = "total inventory cost at customers" -> "verify_inventory_customers"
      [] text = "total inventory cost at depot" -> "verify_inventory_depot"
      [] text = "total cost" -> "verify_total_cost"

PositionOf(check) == CHOOSE j \in 1 .. Len(CheckOrder) : CheckOrder[j] = check

\* the check has run and raised its error
Failed(check) ==
    pc = "done" /\ error.kind # "none" /\ CheckOfError(error.error) = check

\* the check has run and raised nothing
Passed(check) ==
    IF pc = "done"
    THEN error.kind = "none"
         \/ PositionOf(CheckOfError(error.error)) > PositionOf(check)
    ELSE PositionOf(CheckOfStep(pc)) > PositionOf(check)

Days == Range(instance.num_days)

Vehicles == Range(instance.num_vehicles)

\* the node a stop of day dd indexes
NodeOfStop(dd, j) == Index(instance.num_nodes, StopsOfDay(dd)[j][1]) - 1

(* ------------------------------- claims -------------------------------- *)

\* C1: in the inventory simulation every day applies all deliveries of all
\* its routes, then the daily change of every node (depot included), and only
\* then accrues the day's holding cost of every node from the level after the
\* daily change; the next day starts from the levels the day ended with.
C1_DayOrder ==
    /\ pc = "deliver" =>
          \A i \in Nodes :
             /\ At(inventory, i) = EndLevel(i, d - 1) + NetDelivery(AppliedStops, i)
             /\ At(cost_inventory, i) = HoldingCost(i, d - 1)
    /\ pc = "change" =>
          \A i \in Nodes :
             /\ At(inventory, i) =
                   EndLevel(i, d - 1) + NetDelivery(StopsOfDay(d), i)
                   + (IF i < k THEN At(instance.inventory_change, i) ELSE 0)
             /\ At(cost_inventory, i) = HoldingCost(i, d - 1)
    /\ pc = "accrue" =>
          \A i \in Nodes :
             /\ At(inventory, i) = EndLevel(i, d)
             /\ At(cost_inventory, i) = HoldingCost(i, d - 1)
    /\ pc \in {"verify_inventory_customers", "verify_inventory_depot",
               "verify_total_cost"} =>
          \A i \in Nodes :
             /\ At(inventory, i) = EndLevel(i, instance.num_days - 1)
             /\ At(cost_inventory, i) = HoldingCost(i, instance.num_days - 1)

\* C1 witness: the second day's costs are about to be accrued after
\* deliveries on both days
C1_Witness ==
    /\ pc = "accrue" /\ d = 1
    /\ StopsOfDay(0) # <<>> /\ StopsOfDay(1) # <<>>
    /\ \E i \in Nodes : EndLevel(i, 1) # EndLevel(i, 0)

\* C2: right after a single delivery is added to inventory[customer] (and
\* taken from the depot), verify_solution raises the "too high" error of that
\* day and route exactly if inventory[customer] > inventory_max[customer],
\* with no later delivery and no daily change applied; a delivery that brings
\* the level exactly to inventory_max does not raise and the simulation goes on.
C2_DeliveryUpperBound ==
    last.op = "deliver" =>
       /\ last.level = At(inventory, last.node)
       /\ (last.level > At(instance.inventory_max, last.node))
             <=> (/\ pc = "done"
                  /\ error.kind = "VerificationError"
                  /\ error.error = "inventory level too high"
                  /\ error.day = d /\ error.route = r)
       /\ (last.level <= At(instance.inventory_max, last.node))
             => (error = NoError /\ pc \in {"deliver", "change"})
       /\ pc = "done" =>
             \A i \in Nodes :
                At(inventory, i) =
                   EndLevel(i, d - 1) + NetDelivery(AppliedThrough, i)

\* C2 witness: a delivery has just brought a customer exactly to its
\* inventory_max and the simulation goes on
C2_Witness ==
    /\ last.op = "deliver" /\ last.node # 0
    /\ last.level = At(instance.inventory_max, last.node)
    /\ At(instance.inventory_start, last.node) < last.level
    /\ error = NoError

\* C3: after the daily change is added to inventory[i], for every node i
\* including the depot, verify_solution raises the "too low" error of that
\* day exactly if inventory[i] < inventory_min[i] (0 for the depot), and not
\* when the level equals inventory_min[i]; a solution that passes never has
\* the depot below 0 at the end of a day.
C3_ChangeLowerBound ==
    /\ At(instance.inventory_min, 0) = 0
    /\ last.op = "change" =>
          /\ last.level = At(inventory, last.node)
          /\ last.level = EndLevel(last.node, d)
          /\ (last.level < At(instance.inventory_min, last.node))
                <=> (pc = "done" /\ error = err("inventory level too low",
                                                last.node, d, None))
          /\ (last.level >= At(instance.inventory_min, last.node))
                => (error = NoError /\ pc \in {"change", "accrue"})
    /\ (pc = "done" /\ error = NoError) =>
          \A dd \in Days : EndLevel(0, dd) >= 0

\* C3 witness: the deliveries of a day overdrew the depot and its daily
\* change left it below 0: the "too low" error names the depot
C3_Witness ==
    /\ last.op = "change" /\ last.node = 0 /\ last.level < 0
    /\ error.kind = "VerificationError" /\ error.node = 0

\* C4: when verify_capacities runs, it raises the "capacity is exceeded"
\* error, naming the day and route, exactly if some route's volume (the sum
\* of its stops' quantities) is greater than the capacity; a route whose
\* volume equals the capacity does not raise.
C4_Capacity ==
    LET over == {p \in Days \X Vehicles :
                    QuantityTo(At(At(routes, p[1]), p[2]), None)
                       > instance.capacity}
    IN  /\ Failed("verify_capacities") =>
              /\ error.kind = "VerificationError"
              /\ <<error.day, error.route>> \in over
        /\ Passed("verify_capacities") => over = {}

\* C4 witness: the capacity check passed with a route filled exactly to the
\* capacity
C4_Witness ==
    /\ Passed("verify_capacities")
    /\ \E p \in Days \X Vehicles :
          QuantityTo(At(At(routes, p[1]), p[2]), None) = instance.capacity

\* C5: verify_solution raises the delivery error exactly if on some single
\* day two stops (in one route or in two) index the same node, whatever the
\* quantities; a node with at most one stop on each day never raises it,
\* on however many days it is delivered.
C5_OneDeliveryPerDay ==
    LET twice(dd) ==
            {i \in Nodes :
                \E j1, j2 \in 1 .. Len(StopsOfDay(dd)) :
                    j1 # j2 /\ NodeOfStop(dd, j1) = i /\ NodeOfStop(dd, j2) = i}
    IN  /\ Failed("verify_at_most_one_delivery") =>
              /\ error.kind = "VerificationError"
              /\ error.day \in Days
              /\ error.node \in twice(error.day)
        /\ Passed("verify_at_most_one_delivery") =>
              \A dd \in Days : twice(dd) = {}

\* C5 witness: the delivery check passed for a node that is delivered on
\* both days
C5_Witness ==
    /\ Passed("verify_at_most_one_delivery")
    /\ \E i \in Nodes :
          \A dd \in Days :
             \E j \in 1 .. Len(StopsOfDay(dd)) : NodeOfStop(dd, j) = i

RECURSIVE RouteLength(_, _)
RouteLength(prev, stops) ==
    IF stops = <<>> THEN rounded_distance(instance.pos, prev, 0)
    ELSE rounded_distance(instance.pos, prev, Head(stops)[1])
         + RouteLength(Head(stops)[1], Tail(stops))

RECURSIVE RoutesLength(_)
RoutesLength(list) ==
    IF list = <<>> THEN 0
    ELSE RouteLength(0, Head(list)) + RoutesLength(Tail(list))

\* C7: the transportation check passes exactly if the reported integer
\* cost_transportation equals the sum, over all days and routes, of
\* rounded_distance over each consecutive pair of depot, stops, depot; an
\* empty route contributes 0; any difference (1 either way) is the
\* "total transportation cost" error.
C7_TransportationCost ==
    /\ RouteLength(0, <<>>) = 0
    /\ Failed("verify_transportation_costs") =>
          /\ error = err("total transportation cost", None, None, None)
          /\ solution.cost_transportation # RoutesLength(Concat(routes))
    /\ Passed("verify_transportation_costs") =>
          solution.cost_transportation = RoutesLength(Concat(routes))

\* C7 witness: the check passed for routes with a stop and an empty route
C7_Witness ==
    /\ Passed("verify_transportation_costs")
    /\ solution.cost_transportation > 0
    /\ \E j \in 1 .. Len(Concat(routes)) : Concat(routes)[j] = <<>>

\* the sum of H[1], ..., H[i]
RECURSIVE CustomersHoldingCost(_)
CustomersHoldingCost(i) ==
    IF i = 0 THEN float(0)
    ELSE IF i = 1 THEN IntAddFloat(0, HoldingCost(1, instance.num_days - 1))
    ELSE FloatAdd(CustomersHoldingCost(i - 1),
                  HoldingCost(i, instance.num_days - 1))

\* C8: with H[i] the sum over all days of inventory_cost[i] times the level
\* of node i after that day's daily change, the reported customer holding
\* cost is accepted exactly if it equals the sum of H[i] over the customers
\* when both are formatted to two decimals, and the reported depot holding
\* cost exactly if it equals H[0] when both are formatted to two decimals;
\* otherwise the error names that figure.
C8_HoldingCosts ==
    LET customers == CustomersHoldingCost(instance.num_nodes - 1)
        depot == HoldingCost(0, instance.num_days - 1)
    IN  /\ Failed("verify_inventory_customers") =>
              /\ error = err("total inventory cost at customers", None, None, None)
              /\ Format2f(customers) # Format2f(solution.cost_inventory_customers)
        /\ Passed("verify_inventory_customers") =>
              Format2f(customers) = Format2f(solution.cost_inventory_customers)
        /\ Failed("verify_inventory_depot") =>
              /\ error = err("total inventory cost at depot", None, None, None)
              /\ Format2f(depot) # Format2f(solution.cost_inventory_depot)
        /\ Passed("verify_inventory_depot") =>
              Format2f(depot) = Format2f(solution.cost_inventory_depot)

\* C8 witness: both holding costs were accepted although the reported
\* customer figure is not the computed float
C8_Witness ==
    /\ Passed("verify_inventory_depot")
    /\ solution.cost_inventory_customers
          # CustomersHoldingCost(instance.num_nodes - 1)
    /\ CustomersHoldingCost(instance.num_nodes - 1).n > 0

\* the total of the computed figures: transportation + customer holding +
\* depot holding
ComputedTotal ==
    FloatAdd(IntAddFloat(RoutesLength(Concat(routes)),
                         CustomersHoldingCost(instance.num_nodes - 1)),
             HoldingCost(0, instance.num_days - 1))

\* C9 as claimed: the total-cost check passes exactly if the total of the
\* computed figures equals the reported cost, both formatted to two decimals.
C9_TotalOfComputedFigures ==
    /\ Failed("verify_total_cost") =>
          Format2f(ComputedTotal) # Format2f(solution.cost)
    /\ Passed("verify_total_cost") =>
          Format2f(ComputedTotal) = Format2f(solution.cost)

\* C9 as amended: the total-cost check passes exactly if the total of the
\* reported figures, cost_transportation + cost_inventory_depot +
\* cost_inventory_customers, equals the reported cost, both formatted to two
\* decimals; otherwise the error is "total cost".
C9_TotalOfReportedFigures ==
    LET reported ==
            FloatAdd(IntAddFloat(solution.cost_transportation,
                                 solution.cost_inventory_depot),
                     solution.cost_inventory_customers)
    IN  /\ Failed("verify_total_cost") =>
              /\ error = err("total cost", None, None, None)
              /\ Format2f(reported) # Format2f(solution.cost)
        /\ Passed("verify_total_cost") =>
              Format2f(reported) = Format2f(solution.cost)

\* C9 witness: the total-cost check passed for a reported cost that differs,
\* at two decimals, from the total of the computed figures
C9_Witness ==
    /\ Passed("verify_total_cost")
    /\ Format2f(ComputedTotal) # Format2f(solution.cost)

\* the four reported cost figures with the category that the error names
Figures ==
    {<<"cost_transportation", "total transportation cost">>,
     <<"cost_inventory_customers", "total inventory cost at customers">>,
     <<"cost_inventory_depot", "total inventory cost at depot">>,
     <<"cost", "total cost">>}

\* the reported figures with one figure changed by delta units (the integer
\* transportation cost) or by delta cents (a float figure)
Changed(figure, delta) ==
    CASE figure = "cost_transportation" ->
             [solution EXCEPT !.cost_transportation = @ + delta]
      [] figure = "cost_inventory_customers" ->
             [solution EXCEPT !.cost_inventory_customers = float(@.n + 2 * delta)]
      [] figure = "cost_inventory_depot" ->
             [solution EXCEPT !.cost_inventory_depot = float(@.n + 2 * delta)]
      [] figure = "cost" ->
             [solution EXCEPT !.cost = float(@.n + 2 * delta)]

\* the change keeps the figure non-negative
Changeable(figure, delta) ==
    figure = "cost_transportation" \/ solution[figure].n + 2 * delta >= 0

\* the figure is written with at most two decimals
WholeCents(figure) ==
    figure = "cost_transportation" \/ solution[figure].n % 2 = 0

\* C10 as claimed: for a solution that passed verify_solution, changing one
\* reported cost figure by one unit (transportation) or one cent (the other
\* three) makes the cost checks raise the error of that figure's category.
C10_AnyFigureChange ==
    (pc = "done" /\ error = NoError) =>
        \A f \in Figures : \A delta \in {-1, 1} :
            Changeable(f[1], delta) =>
                reconcile(Changed(f[1], delta)) = err(f[2], None, None, None)

\* C10 as amended: the error that verify_solution ends with is the first
\* mismatch of the reported figures in the order of the cost checks; for a
\* solution that passed, changing cost_transportation by one unit, or changing
\* by one cent a float figure that is written with at most two decimals,
\* raises the error of that figure's category.
C10_WholeCentFigureChange ==
    /\ (pc = "done" /\ Passed("verify_inventory")) => error = reconcile(solution)
    /\ (pc = "done" /\ error = NoError) =>
           \A f \in Figures : \A delta \in {-1, 1} :
               (Changeable(f[1], delta) /\ WholeCents(f[1])) =>
                   reconcile(Changed(f[1], delta)) = err(f[2], None, None, None)

\* C10 witness: a solution passed with positive reported holding costs and
\* total, all written with at most two decimals
C10_Witness ==
    /\ pc = "done" /\ error = NoError
    /\ \A f \in Figures : WholeCents(f[1])
    /\ solution.cost_inventory_customers.n > 0
    /\ solution.cost_inventory_depot.n > 0
    /\ solution.cost_transportation > 0

\* the least of a non-empty set of integers
MinOf(S) == CHOOSE x \in S : \A y \in S : x <= y

\* the nodes that two stops of day dd index
DeliveredTwice(dd) ==
    {i \in Nodes :
        \E j1, j2 \in 1 .. Len(StopsOfDay(dd)) :
            j1 # j2 /\ NodeOfStop(dd, j1) = i /\ NodeOfStop(dd, j2) = i}

\* the routes of day dd with more volume than the capacity
OverCapacity(dd) ==
    {rr \in Vehicles :
        QuantityTo(At(At(routes, dd), rr), None) > instance.capacity}

\* some delivery of day dd lifts its node above inventory_max, the levels
\* being those that the days before and the stops before leave
TooHighOn(dd) ==
    \E j \in 1 .. Len(StopsOfDay(dd)) :
        LET i == NodeOfStop(dd, j)
        IN  EndLevel(i, dd - 1) + NetDelivery(SubSeq(StopsOfDay(dd), 1, j), i)
               > At(instance.inventory_max, i)

\* some node ends day dd below inventory_min
TooLowOn(dd) ==
    \E i \in Nodes : EndLevel(i, dd) < At(instance.inventory_min, i)

\* the days on which one of the four rules is violated
DaysViolating ==
    {dd \in Days : \/ DeliveredTwice(dd) # {} \/ OverCapacity(dd) # {}
                   \/ TooHighOn(dd) \/ TooLowOn(dd)}

\* the error texts of the four rules
RuleErrors ==
    {"is delivered too often", "capacity is exceeded",
     "inventory level too high", "inventory level too low"}

C16_StopsReferToNodes ==
    (pc # "parse" /\ error.kind # "ReadError") =>
       \A dd \in Days : \A j \in 1 .. Len(StopsOfDay(dd)) :
          StopsOfDay(dd)[j][1] \in 0 .. instance.num_nodes - 1

\* the route (0-based) of the j-th stop of day dd
RouteOfStop(dd, j) ==
    MinOf({rr \in Vehicles : j <= SumLen(SubSeq(At(routes, dd), 1, rr + 1))})

\* the error of the simulation of day dd, a day with a level out of bounds:
\* that of the first delivery that lifts its node above inventory_max, else
\* that of the first node that ends the day below inventory_min
LevelError(dd) ==
    LET stops == StopsOfDay(dd)
        high == {j \in 1 .. Len(stops) :
                    EndLevel(NodeOfStop(dd, j), dd - 1)
                    + NetDelivery(SubSeq(stops, 1, j), NodeOfStop(dd, j))
                       > At(instance.inventory_max, NodeOfStop(dd, j))}
        low == {i \in Nodes : EndLevel(i, dd) < At(instance.inventory_min, i)}
    IN  IF high # {}
        THEN err("inventory level too high",
                 At(instance.nodes, stops[MinOf(high)][1]), dd,
                 RouteOfStop(dd, MinOf(high)))
        ELSE err("inventory level too low", At(instance.nodes, MinOf(low)),
                 dd, None)

\* what a call of verify_solution raises for the instance, the routes and
\* the reported figures as they are now (NoError if nothing), computed from
\* the rules and not by running the loops
verify_solution ==
    LET twice == {dd \in Days : DeliveredTwice(dd) # {}}
        over  == {dd \in Days : OverCapacity(dd) # {}}
        level == {dd \in Days : TooHighOn(dd) \/ TooLowOn(dd)}
        customers == CustomersHoldingCost(instance.num_nodes - 1)
        depot == HoldingCost(0, instance.num_days - 1)
        reported == FloatAdd(IntAddFloat(solution.cost_transportation,
                                         solution.cost_inventory_depot),
                             solution.cost_inventory_customers)
    IN  IF twice # {}
        THEN err("is delivered too often",
                 At(instance.nodes, MinOf(DeliveredTwice(MinOf(twice)))),
                 MinOf(twice), None)
        ELSE IF over # {}
        THEN err("capacity is exceeded", None, MinOf(over),
                 MinOf(OverCapacity(MinOf(over))))
        ELSE IF solution.cost_transportation # RoutesLength(Concat(routes))
        THEN err("total transportation cost", None, None, None)
        ELSE IF level # {} THEN LevelError(MinOf(level))
        ELSE IF Format2f(customers) # Format2f(solution.cost_inventory_customers)
        THEN err("total inventory cost at customers", None, None, None)
        ELSE IF Format2f(depot) # Format2f(solution.cost_inventory_depot)
        THEN err("total inventory cost at depot", None, None, None)
        ELSE IF Format2f(reported) # Format2f(solution.cost)
        THEN err("total cost", None, None, None)
        ELSE NoError

(* --------------------- verify: the loop over the blocks ---------------- *)

\* solution.verify_solution() for the Solution just constructed
VerifySolution ==
    /\ call = "verify_solution"
    /\ IF verify_solution # NoError
       THEN Raise(verify_solution)
       ELSE /\ call' = "verify_time"
            /\ UNCHANGED <<error, result>>
    /\ UNCHANGED <<routes, solution, commented_solutions, block>>
    /\ verify_unchanged

\* solution.verify_time(processors), after which the loop goes on with the
\* next block or, after the last block, verify returns True
VerifyTime ==
    /\ call = "verify_time"
    /\ LET raised == verify_time(solution, processors)
       IN  IF raised # NoError
           THEN /\ Raise(raised)
                /\ UNCHANGED block
           ELSE IF block < Len(commented_solutions)
           THEN /\ block' = block + 1
                /\ call' = "Solution"
                /\ UNCHANGED <<error, result>>
           ELSE /\ call' = "returned"
                /\ result' = "True"
                /\ UNCHANGED <<error, block>>
    /\ UNCHANGED <<routes, solution, commented_solutions>>
    /\ verify_unchanged

VerifyNext == PrepareSolution \/ ConstructSolution \/ VerifySolution \/ VerifyTime

VerifySpec == VerifyInit /\ [][VerifyNext]_vars

\* C19: verify_solution leaves the Instance (inventory_start and the other
\* per-node lists) and the routes of the Solution unchanged, the simulated
\* inventory being a copy, and a reported figure is only set where it is
\* read; so verifying the Solution again, from the Instance and the Solution
\* as the first call left them, gives the outcome of the first call.
C19_NoEffectOnInstanceAndSolution ==
    /\ [][pc # "parse" =>
            /\ instance' = instance
            /\ routes' = routes
            /\ (solution'.cost_transportation # solution.cost_transportation
                   => pc = "verify_transportation_costs")
            /\ (solution'.cost_inventory_customers
                      # solution.cost_inventory_customers
                   => pc = "verify_inventory_customers")
            /\ (solution'.cost_inventory_depot # solution.cost_inventory_depot
                   => pc = "verify_inventory_depot")
            /\ (solution'.cost # solution.cost => pc = "verify_total_cost")]_vars
    /\ []((pc = "done" /\ error.kind # "ReadError") => error = verify_solution)

\* C19 witness: a solution passed whose simulation left the inventory at
\* other levels than the start levels
C19_Witness ==
    /\ pc = "done" /\ error = NoError
    /\ \A i \in Nodes : At(inventory, i) # At(instance.inventory_start, i)

\* C17 as claimed: an Instance is only constructed from a text with
\* num_nodes - 1 customer lines, so that each of its per-node lists has
\* exactly num_nodes entries.
C17_NodeCount ==
    call = "constructed" =>
       /\ Len(instance.pos) = instance.num_nodes
       /\ Len(instance.inventory_start) = instance.num_nodes
       /\ Len(instance.inventory_min) = instance.num_nodes
       /\ Len(instance.inventory_max) = instance.num_nodes
       /\ Len(instance.inventory_change) = instance.num_nodes
       /\ Len(instance.inventory_cost) = instance.num_nodes

\* the blocks of the solution text, and whether verify has ended
Blocks == 1 .. Len(commented_solutions)

Ended == call \in {"returned", "raised"}

\* C12: verify takes the blocks in file order, one after the other, and
\* runs for each block the parse, then verify_solution, then verify_time
\* before the next block is parsed; the first ReadError or
\* VerificationError ends verify with False and no later block is parsed
\* or verified; verify returns True exactly when every block has passed
\* the three steps.
C12_BlocksInOrderFailFast ==
    /\ [][/\ ~Ended
          /\ call = "prepare_solution"
                => (call' = "Solution" /\ block' = 1) \/ call' = "raised"
          /\ call = "Solution"
                => /\ call' \in {"verify_solution", "returned", "raised"}
                   /\ block' = block
          /\ call = "verify_solution"
                => call' \in {"verify_time", "returned"} /\ block' = block
          /\ call = "verify_time"
                => \/ call' = "Solution" /\ block' = block + 1
                                         /\ block' \in Blocks
                   \/ call' \in {"returned", "raised"} /\ block' = block
          /\ commented_solutions # <<>>
                => commented_solutions' = commented_solutions]_vars
    /\ [](error.kind \in {"ReadError", "VerificationError"}
             => call = "returned" /\ result = "False")
    /\ [](result = "True"
             <=> /\ call = "returned"
                 /\ error = NoError
                 /\ block = Len(commented_solutions))

\* C12 witness: verify returned False at the first of two blocks, the
\* second of which is a block that passes when it comes first
C12_Witness ==
    /\ call = "returned"
    /\ result = "False"
    /\ block = 1
    /\ Len(commented_solutions) = 2
    /\ commented_solutions[2].lines
          = BlockText(GoodRoute, "8.62", <<"cpu">>, "1800")
    /\ processors[<<"cpu">>] = 2000

\* the lines of the solution text that are equal to "Day 1", the first and
\* the last line of the range of block i, and the lines of a range that
\* are comments and that are not
DelimiterLines == {j \in 1 .. Len(lines) : lines[j] = delimiter}

FirstLineOf(i) ==
    IF i = 1 THEN 1
    ELSE CHOOSE j \in DelimiterLines :
            Cardinality({h \in DelimiterLines : h < j}) = i - 1

LastLineOf(i) ==
    IF i = Cardinality(DelimiterLines) THEN Len(lines)
    ELSE FirstLineOf(i + 1) - 1

is_grammar(line) == ~is_comment(line)

\* C13: for a text whose first line starts with '#', prepare_solution
\* returns one block per line equal to "Day 1", in file order; the first
\* block starts at the first line of the text and every other block at its
\* "Day 1" line, each block ends before the next "Day 1" line, its
\* grammar lines are the lines of that range that are no comments and its
\* commentary the lines that are, in their order. For any other text it
\* returns one block with no commentary and all the lines.
C13_BlocksAtDayOne ==
    call # "prepare_solution" =>
        /\ result # "IndexError"
        /\ IF lines # <<>> /\ is_comment(Head(lines))
           THEN /\ Len(commented_solutions) = Cardinality(DelimiterLines)
                /\ \A i \in Blocks :
                      LET range == SubSeq(lines, FirstLineOf(i), LastLineOf(i))
                      IN  /\ commented_solutions[i].lines
                                = SelectSeq(range, is_grammar)
                          /\ commented_solutions[i].comments
                                = SelectSeq(range, is_comment)
           ELSE commented_solutions = <<[comments |-> <<>>, lines |-> lines]>>

\* the time limit in seconds for a score that divides 2000 * 1800, and a
\* number of seconds as a time
TimeLimit(score) == (2000 * 1800) \div score

Seconds(n) == [n |-> 200 * n, r |-> 0]

\* C14: verify_time raises a VerificationError if the reported processor
\* is no key of the benchmark table, whatever the time; otherwise it
\* raises one exactly if the time is above (2000 / score) * 1800 seconds
\* (none for the score 0, which bounds no time), so that a time equal to
\* the limit passes, and the limit for the score 2000 is 1800 seconds. The
\* time check of a block is reached only after verify_solution of that
\* block has passed.
C14_TimeLimit ==
    /\ [][call = "verify_time" =>
            LET known == solution.processor \in DOMAIN processors
                score == processors[solution.processor]
                raised == error'.kind = "VerificationError"
            IN  /\ ~known => raised /\ result' = "False"
                /\ known /\ score # 0
                      => (raised <=> solution.time.n
                                        > Seconds(TimeLimit(score)).n)
                /\ known /\ score = 0 => ~raised
                /\ known /\ score = 2000
                      => (raised <=> solution.time.n > Seconds(1800).n)
                /\ raised => call' = "returned" /\ result' = "False"]_vars
    /\ [](call = "verify_time" => error = NoError /\ verify_solution = NoError)

\* C14 witness: verify returned True for a solution whose time is the
\* limit of 1800 seconds of a processor with the score 2000
C14_Witness ==
    /\ result = "True"
    /\ solution.time = Seconds(1800)
    /\ solution.processor \in DOMAIN processors
    /\ processors[solution.processor] = 2000

\* the day and route headers a block of the instance is read from, in
\* order, and the headers of the lines of a block (a header is a line that
\* starts with "Day" or "Route", taken up to its number)
RECURSIVE ExpectedHeaders(_)
ExpectedHeaders(dd) ==
    IF dd >= instance.num_days THEN <<>>
    ELSE << <<"Day", DayNames[dd + 1]>> >>
            \o [rr \in 1 .. instance.num_vehicles |-> <<"Route", RouteNames[rr]>>]
            \o ExpectedHeaders(dd + 1)

is_header(line) == line # <<>> /\ Head(line) \in {"Day", "Route"}

HeadersOf(text) ==
    LET headers == SelectSeq(text, is_header)
    IN  [j \in 1 .. Len(headers) |-> SubSeq(headers[j], 1, 2)]

\* the lines of the block that verify is at
BlockLines == commented_solutions[block].lines

\* C15: a Solution constructed without a ReadError has num_days days of
\* num_vehicles routes each, read from the headers "Day 1" to
\* "Day num_days" and in each day "Route 1" to "Route num_vehicles" in
\* that order, and a block with a missing, extra, repeated or out-of-order
\* day or route header is a ReadError.
C15_HeadersInOrder ==
    block \in Blocks /\ call # "Solution" =>
        /\ error.kind # "ReadError" /\ call # "raised" =>
              /\ Len(routes) = instance.num_days
              /\ \A dd \in 1 .. Len(routes) :
                    Len(routes[dd]) = instance.num_vehicles
              /\ HeadersOf(BlockLines) = ExpectedHeaders(0)
        /\ HeadersOf(BlockLines) # ExpectedHeaders(0)
              => error.kind = "ReadError"

\* whether a route text has the form "0 - ", then "c ( q ) - " for stops
\* with 0 <= c < num_nodes and an integer q, then "0", and its stops
InForm(text) ==
    /\ Len(text) >= 3 /\ (Len(text) - 3) % 5 = 0
    /\ text[1] = "0" /\ text[2] = "-" /\ text[Len(text)] = "0"
    /\ \A j \in 1 .. (Len(text) - 3) \div 5 :
          /\ text[5 * j - 2] \in IntTokens
          /\ int(text[5 * j - 2]) \in Range(instance.num_nodes)
          /\ text[5 * j - 1] = "("
          /\ text[5 * j] \in IntTokens
          /\ text[5 * j + 1] = ")"
          /\ text[5 * j + 2] = "-"

StopsIn(text) ==
    [j \in 1 .. (Len(text) - 3) \div 5 |->
        <<int(text[5 * j - 2]), int(text[5 * j])>>]

\* C18: parsing the route text "0 - ", "c ( q ) - " for each stop of a
\* list of stops with 0 <= c < num_nodes and an integer q, and a final "0",
\* gives that list of stops in its order (no stop for "0 - 0"), and every
\* token sequence that has not this form is a ReadError.
C18_RouteRoundTrip ==
    call = "parsed" =>
        IF InForm(lines[1])
        THEN error = NoError /\ route = StopsIn(lines[1])
        ELSE error.kind = "ReadError"

\* C20: for every solution text and benchmark table verify ends by
\* returning True or False, never with an exception that it does not
\* catch: not for a text that starts with '#' and has no "Day 1" line, not
\* for the empty text, not for a score of 0.
C20_BooleanVerdict ==
    /\ call # "raised"
    /\ Ended => result \in {"True", "False"}

(* ------------------ verify_solution on any Solution -------------------- *)

\* the instance texts of the simulation: those of InstanceTexts, and the same
\* with customers that consume nothing
SimulationTexts ==
    { [meta  |-> <<3, 2, 1, 2>>,
       depot |-> [x |-> 0, y |-> 0, start |-> 0, change |-> 1, cost |-> 6],
       customers |->
          << [x |-> 1, y |-> 1, start |-> 1, u |-> 2, l |-> 0, change |-> c,
              cost |-> 25],
             [x |-> 2, y |-> 2, start |-> s, u |-> 2, l |-> 1, change |-> c,
              cost |-> 50] >>] : s \in 0 .. MaxStart, c \in 0 .. 1 }

SimulationInstances ==
    { init_by_lines(t.meta, t.depot, t.customers) : t \in SimulationTexts }

\* the stops that parse_remaining_route returns for an instance: a customer
\* id below num_nodes (the ids from -1 on) and any integer quantity (those
\* from -MaxQty to MaxQty)
SimulationStops(inst) == (-1 .. inst.num_nodes - 1) \X ((0 - MaxQty) .. MaxQty)

\* most stops of a Solution that verify_solution is called on
MaxDeliveries == 1

\* the lists of m routes with n stops at most in all
RECURSIVE RouteLists(_, _, _)
RouteLists(m, n, stops) ==
    IF m = 0 THEN {<<>>}
    ELSE UNION {{<<first>> \o rest :
                    rest \in RouteLists(m - 1, n - Len(first), stops)} :
                first \in StopLists(n, stops)}

\* self.routes of the Solutions constructed: num_days days of num_vehicles
\* routes each, with MaxDeliveries stops at most in all
SimulationRoutes(inst) ==
    {[dd \in 1 .. inst.num_days |->
         SubSeq(list, (dd - 1) * inst.num_vehicles + 1, dd * inst.num_vehicles)] :
        list \in RouteLists(inst.num_days * inst.num_vehicles, MaxDeliveries,
                            SimulationStops(inst))}

\* a Solution has been constructed and verify_solution is called
SimulationInit ==
    /\ instance \in SimulationInstances
    /\ routes \in SimulationRoutes(instance)
    /\ day_routes = <<>>
    /\ route = <<>>
    /\ solution = [cost_transportation |-> 0,
                   cost_inventory_customers |-> float(0),
                   cost_inventory_depot |-> float(0),
                   cost |-> float(0)]
    /\ pc = "verify_at_most_one_delivery"
    /\ d = 0 /\ r = 0 /\ k = 0
    /\ inventory = <<>>
    /\ cost_inventory = <<>>
    /\ error = NoError
    /\ last = [op |-> "none", node |-> None, level |-> 0]
    /\ NoFile

\* verify_solution: its checks in their order
SimulationNext ==
    \/ VerifyAtMostOneDelivery
    \/ VerifyCapacities
    \/ VerifyTransportationCosts
    \/ BeginInventory
    \/ Deliver
    \/ Change
    \/ Accrue
    \/ VerifyInventoryCustomers
    \/ VerifyInventoryDepot
    \/ VerifyTotalCost

SimulationSpec == SimulationInit /\ [][SimulationNext]_vars

\* C21: if verify_solution returns without error, the level of every node
\* (the depot included) at the end of every day, after that day's deliveries
\* and daily change, lies within the node's bounds:
\* inventory_min[i] <= level <= inventory_max[i].
C21_LevelsWithinBounds ==
    (pc = "done" /\ error = NoError) =>
        \A dd \in Days : \A i \in Nodes :
            /\ At(instance.inventory_min, i) <= EndLevel(i, dd)
            /\ EndLevel(i, dd) <= At(instance.inventory_max, i)

\* what a delivery of quantity delivery to the node (0-based) adds to the
\* level of node i: the quantity at the stop's node, minus the quantity at
\* the depot
DeliveryTo(i, node, delivery) ==
    (IF i = node THEN delivery ELSE 0) - (IF i = 0 THEN delivery ELSE 0)

\* C22: every single delivery (customer, qty) adds qty to the level of the
\* stop's node and takes it from the depot's, also when the stop is the depot
\* itself, so it leaves the sum of all levels unchanged; after the daily
\* change of day d (1-based) of any run that gets that far,
\* sum(inventory) = sum(inventory_start) + d * sum(inventory_change).
C22_Conservation ==
    /\ [][Deliver =>
             /\ \A i \in Nodes :
                   At(inventory', i) =
                      At(inventory, i)
                      + DeliveryTo(i, last'.node,
                                   At(At(At(routes, d), r), k)[2])
             /\ SumSeq(inventory') = SumSeq(inventory)]_vars
    /\ [](pc = "accrue" =>
             SumSeq(inventory) =
                SumSeq(instance.inventory_start)
                + (d + 1) * SumSeq(instance.inventory_change))

\* C22 witness: the second day's changes are done after a delivery of a
\* quantity other than 0 to the depot itself
C22_Witness ==
    /\ pc = "accrue" /\ d = 1
    /\ \E dd \in Days : \E j \in 1 .. Len(StopsOfDay(dd)) :
          NodeOfStop(dd, j) = 0 /\ StopsOfDay(dd)[j][2] # 0

====
